---- MODULE Spec2Model ----
(***************************************************************************)
(* Model of the usage-telemetry agent of Telemetry/Telemetry.py:           *)
(* the permission resolver, the daily-counter aggregation, the CSV store   *)
(* and the upload policy with its network completion callback.             *)
(***************************************************************************)
EXTENDS Integers, Sequences, FiniteSets, TLC, Bags

\* ------------------------------------------------------------------ bounds
MaxNow == 2          \* the clock runs over the ticks 0..MaxNow
MaxCount == 2        \* a counter is recorded up to this value
MaxInFlight == 2     \* network replies that can be pending at the same time
MaxIntervalDays == 8 \* the interval check is made up to this many days after
                     \* lastSent
MaxThreads == 2      \* logUsageEvent executions that can be under way at once

Components == {"A", "B"}
Events == {"e"}
ExtOrder == <<"A", "B">>   \* order of extensionsManagerModel().installedExtensions
TicksPerDay == 2           \* resolution of the clock: ticks in a calendar day
ClockValues == 0..MaxNow
Days == {t \div TicksPerDay : t \in ClockValues}
Keys == Components \X Events \X Days

\* ------------------------------------------------- Python values, by type
\* None, True, False and the two strings a stored boolean is read back as
PyNone == "None"
PyTrue == "True"
PyFalse == "False"
StrTrue == "'true'"
StrFalse == "'false'"

\* mutant: every value counts as true
Truthy_All(v) == TRUE

\* truth value Python gives an object in `if x` / `not x`
Truthy(v) == v \in {PyTrue, StrTrue, StrFalse}

PyInt(n) == [type |-> "int", v |-> n]
\* the decimal text of n, as csv.DictReader returns a field
PyStr(n) == [type |-> "str", v |-> n]
\* a field csv.DictReader returns for text that is not a decimal number
PyText == [type |-> "text", v |-> 0]
\* the None csv.DictReader returns for a field the row is too short to have
PyMissing == [type |-> "none", v |-> 0]
\* int(x) raises ValueError on text that is no number, TypeError on None
IntRaises(x) == x.type \notin {"int", "str"}
\* int(x): of an int, or of the decimal text of one
ParseInt(x) == x.v
\* mutant: every field is written as the text of zero
FormatField_Zero(x) == 0

\* str(x), which csv.DictWriter applies to a non-string field
FormatField(x) == x.v

InList(x, l) == \E i \in 1..Len(l) : l[i] = x

VARIABLES
  testingEnabled,   \* slicer.app.testingEnabled() of this launch
  haveQT,           \* TelemetryLogic._haveQT
  settings,         \* qt.QSettings(): key -> value, only the keys that are set
  installed,        \* extensions the extension manager has installed
  csvFile,          \* telemetry_events.csv
  inFlight,         \* the pending QNetworkReply objects, as the bag of the
                    \* payloads they were posted with
  urlsByReply,      \* the keys of TelemetryLogic.urlsByReply, each reply by
                    \* the payload it was posted with
  dialog,           \* the TelemetrySendDialog, while it is shown
  now,              \* datetime.now(), in ticks
  startupTimer,     \* the 5 s single-shot timer of onStartupCompleted is armed
  recorded,         \* key -> occurrences logUsageEvent counted since the last clear
  logging,          \* the logUsageEvent executions that have read the store
                    \* and not yet saved, as the bag of what each one holds
  last              \* the operation that ran last and what it did

vars == <<testingEnabled, haveQT, settings, installed, csvFile, inFlight,
          urlsByReply, dialog, now, startupTimer, recorded, logging, last>>

\* mutant: the application never reports testing mode
TestingEnabled_Never == FALSE

\* slicer.app.testingEnabled()
TestingEnabled == testingEnabled

\* ---------------------------------------------------------------- settings
\* mutant: the stored value is ignored
SettingsValue_DefaultOnly(key, default) == default

\* QSettings.value(key, default)
SettingsValue(key, default) ==
  IF key \in DOMAIN settings THEN settings[key] ELSE default

\* mutant: the value is not stored
SetValue_Ignored(s, key, value) == s

\* QSettings.setValue(key, value) applied to a settings map
SetValue(s, key, value) ==
  [k \in (DOMAIN s) \cup {key} |-> IF k = key THEN value ELSE s[k]]

\* mutant: a list that was never stored holds every extension
ListSetting_AllExtensions(key) == SettingsValue(key, ExtOrder)

\* settings.value(key) of a list-valued key, None replaced by []
ListSetting(key) == SettingsValue(key, <<>>)

\* ------------------------------------------------------------ durable store
\* the file as _createEmptyCSVFile leaves it: the header row and no record
EmptyCSVFile ==
  [exists |-> TRUE, header |-> TRUE, rows |-> <<>>, damage |-> "none"]

\* the file as clearLoggedEventsFile leaves it: truncated to zero bytes
ClearedCSVFile ==
  [exists |-> TRUE, header |-> FALSE, rows |-> <<>>, damage |-> "none"]

\* What the file can hold that the agent did not write. "unreadable": bytes
\* that open() or the decoding of a line raises on. "noCount": rows cut after
\* the day field. "badCount": count fields that are not decimal numbers.
Damages == {"unreadable", "noCount", "badCount"}

\* row["times"] as csv.DictReader returns it for a row of the file
CountField(f, i) ==
  IF f.damage = "noCount" THEN PyMissing
  ELSE IF f.damage = "badCount" THEN PyText
  ELSE PyStr(f.rows[i].times)

\* mutant: no row is ever returned
ReadLoggedEvents_Empty(f) == <<>>

\* what readLoggedEventsFromFile returns: one dict per row below the header,
\* every field a string; [] when reading raised
ReadLoggedEvents(f) ==
  IF f.exists /\ f.header /\ f.damage # "unreadable"
    THEN [i \in 1..Len(f.rows) |->
            [component |-> f.rows[i].component, event |-> f.rows[i].event,
             day |-> f.rows[i].day, times |-> CountField(f, i)]]
    ELSE <<>>

\* the file after readLoggedEventsFromFile: a missing file is created
FileAfterRead(f) == IF f.exists THEN f ELSE EmptyCSVFile

\* the file after saveLoggedEventsToFile(logged_events)
SavedCSVFile(logged_events) ==
  [exists |-> TRUE, header |-> TRUE, damage |-> "none",
   rows |-> [i \in 1..Len(logged_events) |->
               [component |-> logged_events[i].component,
                event |-> logged_events[i].event,
                day |-> logged_events[i].day,
                times |-> FormatField(logged_events[i].times)]]]

\* ------------------------------------------------------ permission resolver
\* mutant: a component in no list follows the default permission
ShouldLogUsageEvent_DefaultForUnknown(component) ==
  IF InList(component, SettingsValue("enabledExtensions", <<>>)) THEN PyTrue
  ELSE IF InList(component, SettingsValue("disabledExtensions", <<>>)) THEN PyFalse
  ELSE SettingsValue("TelemetryDefaultPermission", PyNone)

ShouldLogUsageEvent(component) ==
  IF InList(component, ListSetting("enabledExtensions")) THEN PyTrue
  ELSE IF InList(component, ListSetting("disabledExtensions")) THEN PyFalse
  ELSE IF InList(component, ListSetting("defaultExtensions"))
    THEN SettingsValue("TelemetryDefaultPermission", PyNone)
  ELSE PyFalse

\* --------------------------------------------------------- event aggregator
\* datetime.now().strftime('%Y-%m-%d')
EventDay(t) == t \div TicksPerDay

KeyOf(row) == <<row.component, row.event, row.day>>

\* mutant: the item is appended without looking the key up
DictSet_Append(d, key, value) == Append(d, [key |-> key, value |-> value])

\* d[key] = value on an insertion-ordered dict, kept as a sequence of items
DictSet(d, key, value) ==
  IF \E i \in 1..Len(d) : d[i].key = key
    THEN [i \in 1..Len(d) |-> IF d[i].key = key
                                THEN [key |-> key, value |-> value] ELSE d[i]]
    ELSE Append(d, [key |-> key, value |-> value])

\* mutant: the count found under the key is not used
DictGet_Default(d, key, default) == default

\* d.get(key, default)
DictGet(d, key, default) ==
  IF \E i \in 1..Len(d) : d[i].key = key
    THEN (CHOOSE x \in {d[i] : i \in 1..Len(d)} : x.key = key).value
    ELSE default

\* mutant: the rows that were read are left out of the dict
EventCounts_Empty(rows) == <<>>

\* {(row["component"], row["event"], row["day"]): int(row["times"]) for row in rows}
RECURSIVE EventCounts(_)
EventCounts(rows) ==
  IF rows = <<>> THEN <<>>
  ELSE LET n == Len(rows)
       IN DictSet(EventCounts(SubSeq(rows, 1, n - 1)), KeyOf(rows[n]),
                  ParseInt(rows[n].times))

\* the list logUsageEvent saves after counting one more (component, event)
MergedEvents(rows, component, event, t) ==
  LET key == <<component, event, EventDay(t)>>
      counts == EventCounts(rows)
      updated == DictSet(counts, key, DictGet(counts, key, 0) + 1)
  IN [i \in 1..Len(updated) |->
        [component |-> updated[i].key[1], event |-> updated[i].key[2],
         day |-> updated[i].key[3], times |-> PyInt(updated[i].value)]]

\* ------------------------------------------------------------ upload policy
TELEMETRY_SEND_INTERVAL_DAYS == 7

\* datetime.now().isoformat() and datetime.fromisoformat(text)
IsoFormat(t) == <<"iso", t>>
FromIsoFormat(text) == text[2]

\* mutant: a day that has begun is counted as a whole day
DaysSince_RoundUp(t, lastSentDate) ==
  (t - lastSentDate + TicksPerDay - 1) \div TicksPerDay

\* (datetime.now() - lastSentDate).days
DaysSince(t, lastSentDate) == (t - lastSentDate) \div TicksPerDay

\* mutant: the interval is never looked at
ShouldPromptForTelemetryUpload_Always == TRUE

ShouldPromptForTelemetryUpload ==
  LET sendPolicy == SettingsValue("TelemetrySendPolicy", "ask")
  IN IF sendPolicy = "always" \/ sendPolicy = "never" THEN FALSE
     ELSE IF "lastSent" \in DOMAIN settings
       THEN DaysSince(now, FromIsoFormat(settings["lastSent"]))
              >= TELEMETRY_SEND_INTERVAL_DAYS
     ELSE TRUE

\* What an operation reports in `last`: which entry point ran (op, force,
\* component), what it was given (permitted: the resolver's answer for the
\* component; error, status: how the transport answered) and what it did
\* (prompted: showed the send dialog; transport: posted a payload; logged:
\* saved a merged snapshot; raised: left through an exception nothing caught).
Report(op) ==
  [op |-> op, force |-> FALSE, component |-> "", event |-> "",
   permitted |-> FALSE,
   prompted |-> FALSE, transport |-> FALSE, logged |-> FALSE,
   error |-> "", status |-> 0, raised |-> FALSE]

NoRecorded == [k \in Keys |-> 0]

\* one more reply posted with data_to_send
WithReply(replies, data_to_send) == replies (+) SetToBag({data_to_send})

\* one reply posted with this payload less: the reply finished
WithoutReply(replies, reply) == replies (-) SetToBag({reply})

\* how the blocking requests.post can end: with a response of some status
\* code, or with an exception
SyncResults ==
  { [error |-> "NoError", status |-> 200],
    [error |-> "NoError", status |-> 500],
    [error |-> "ConnectionError", status |-> 0] }

\* `response.status_code == 200`, reached only when post returned a response
SyncSucceeded(result) == result.error = "NoError" /\ result.status = 200

\* mutant: an empty snapshot is sent like any other
NothingToSend_Never(data_to_send) == FALSE

\* `if not data_to_send`
NothingToSend(data_to_send) == data_to_send = <<>>

\* _sendTelemetryData, entered with the settings map s; rep is the report of
\* the calling entry point
SendTelemetryData(s, rep) ==
  LET data_to_send == ReadLoggedEvents(csvFile)
  IN IF NothingToSend(data_to_send)
       THEN /\ csvFile' = FileAfterRead(csvFile)
            /\ settings' = s
            /\ last' = rep
            /\ UNCHANGED <<inFlight, urlsByReply, recorded>>
     ELSE IF haveQT
       THEN /\ BagCardinality(inFlight) < MaxInFlight
            /\ inFlight' = WithReply(inFlight, data_to_send)
            /\ urlsByReply' = WithReply(urlsByReply, data_to_send)
            /\ settings' = s
            /\ last' = [rep EXCEPT !.transport = TRUE]
            /\ UNCHANGED <<csvFile, recorded>>
     ELSE \E result \in SyncResults :
            /\ last' = [rep EXCEPT !.transport = TRUE, !.error = result.error,
                                   !.status = result.status]
            /\ IF SyncSucceeded(result)
                 THEN /\ csvFile' = ClearedCSVFile
                      /\ recorded' = NoRecorded
                      /\ settings' = SetValue(s, "lastSent", IsoFormat(now))
                      /\ UNCHANGED <<inFlight, urlsByReply>>
                 ELSE /\ settings' = s
                      /\ UNCHANGED <<csvFile, recorded, inFlight, urlsByReply>>

NoDialog == [open |-> FALSE, details |-> <<>>]

\* `sendPolicy == "never" and not force`
PolicyBlocks(sendPolicy, force) == sendPolicy = "never" /\ ~force

\* mutant: the always policy is not given its own branch
PolicySendsDirectly_Never(sendPolicy, force) == FALSE

\* `sendPolicy == "always" and not force`
PolicySendsDirectly(sendPolicy, force) == sendPolicy = "always" /\ ~force

\* usageUpload(force), up to the point where the send dialog is shown
UsageUploadCall(force, op) ==
  /\ ~dialog.open
  /\ LET sendPolicy == SettingsValue("TelemetrySendPolicy", "ask")
         rep == [Report(op) EXCEPT !.force = force]
     IN IF TestingEnabled
          THEN /\ last' = rep
               /\ UNCHANGED <<settings, csvFile, inFlight, urlsByReply, dialog,
                              recorded>>
        ELSE IF PolicyBlocks(sendPolicy, force)
          THEN /\ last' = rep
               /\ UNCHANGED <<settings, csvFile, inFlight, urlsByReply, dialog,
                              recorded>>
        ELSE IF PolicySendsDirectly(sendPolicy, force)
          THEN /\ SendTelemetryData(settings, rep)
               /\ UNCHANGED dialog
        ELSE IF ~force /\ ~ShouldPromptForTelemetryUpload
          THEN /\ last' = rep
               /\ UNCHANGED <<settings, csvFile, inFlight, urlsByReply, dialog,
                              recorded>>
        ELSE /\ dialog' = [open |-> TRUE, details |-> ReadLoggedEvents(csvFile)]
             /\ csvFile' = FileAfterRead(csvFile)
             /\ last' = [rep EXCEPT !.prompted = TRUE]
             /\ UNCHANGED <<settings, inFlight, urlsByReply, recorded>>
  /\ UNCHANGED <<logging, testingEnabled, haveQT, installed, now>>

\* TelemetryWidget.handleTelemetryUpload(force): the "send now" button with
\* force = True, handleTelemetryDialogResponse with force = False
UsageUpload(force) ==
  /\ UsageUploadCall(force, "usageUpload")
  /\ UNCHANGED startupTimer

\* what the user can do with the send dialog: accept it with one of the four
\* radio buttons checked or with none, or reject it
DialogChoices == {"send-once", "dont-send-once", "always", "never", "None", "rejected"}

\* usageUpload from the return of dialog.exec_()
DialogResolved(choice) ==
  /\ dialog.open
  /\ dialog' = NoDialog
  /\ IF choice = "send-once"
       THEN SendTelemetryData(settings, Report("dialog"))
     ELSE IF choice = "always"
       THEN SendTelemetryData(SetValue(settings, "TelemetrySendPolicy", "always"),
                              Report("dialog"))
     ELSE IF choice = "never"
       THEN /\ settings' = SetValue(settings, "TelemetrySendPolicy", "never")
            /\ last' = Report("dialog")
            /\ UNCHANGED <<csvFile, inFlight, urlsByReply, recorded>>
     ELSE /\ last' = Report("dialog")
          /\ UNCHANGED <<settings, csvFile, inFlight, urlsByReply, recorded>>
  /\ UNCHANGED <<logging, testingEnabled, haveQT, installed, now, startupTimer>>

\* the timer callback check_and_send_telemetry of onStartupCompleted; the
\* timer is armed by the launch and fires before anything else is done in it
StartupCheck ==
  /\ startupTimer
  /\ startupTimer' = FALSE
  /\ IF ShouldPromptForTelemetryUpload
       THEN UsageUploadCall(FALSE, "startupCheck")
       ELSE /\ last' = Report("startupCheck")
            /\ UNCHANGED <<settings, csvFile, inFlight, urlsByReply, dialog,
                           recorded, logging, testingEnabled, haveQT, installed,
                           now>>

\* how a pending reply can finish: reply.error() and the HTTP status code
ReplyResults ==
  { [error |-> "NoError", status |-> 200],
    [error |-> "NoError", status |-> 204],
    [error |-> "InternalServerError", status |-> 500],
    [error |-> "ConnectionRefusedError", status |-> 0] }

\* mutant: every finished reply is taken for a delivery
ReplySucceeded_AnyReply(result) == TRUE

\* `reply.error() == qt.QNetworkReply.NoError`
ReplySucceeded(result) == result.error = "NoError"

\* mutant: the entry of a finished reply is kept
UrlsWithoutReply_Kept(urls, reply) == urls

\* `url = self.urlsByReply.get(reply)`, `if url: del self.urlsByReply[reply]`
UrlsWithoutReply(urls, reply) ==
  IF BagIn(reply, urls) THEN WithoutReply(urls, reply) ELSE urls

\* handleNetworkReply(reply), run by the finished signal of the manager
HandleNetworkReply(reply, result) ==
  /\ BagIn(reply, inFlight)
  /\ inFlight' = WithoutReply(inFlight, reply)
  /\ urlsByReply' = UrlsWithoutReply(urlsByReply, reply)
  /\ last' = [Report("handleNetworkReply") EXCEPT !.error = result.error,
                                                  !.status = result.status]
  /\ IF ReplySucceeded(result)
       THEN /\ settings' = SetValue(settings, "lastSent", IsoFormat(now))
            /\ csvFile' = ClearedCSVFile
            /\ recorded' = NoRecorded
       ELSE UNCHANGED <<settings, csvFile, recorded>>
  /\ UNCHANGED <<logging, testingEnabled, haveQT, installed, dialog, now, startupTimer>>

\* handleNetworkReply(reply) for a reply that finished without error while
\* telemetry_events.csv cannot be opened for writing: lastSent is stored, then
\* the open() of clearLoggedEventsFile raises and nothing catches it
HandleNetworkReplyClearFails(reply) ==
  /\ BagIn(reply, inFlight)
  /\ csvFile.exists
  /\ inFlight' = WithoutReply(inFlight, reply)
  /\ urlsByReply' = UrlsWithoutReply(urlsByReply, reply)
  /\ settings' = SetValue(settings, "lastSent", IsoFormat(now))
  /\ last' = [Report("handleNetworkReply") EXCEPT
                !.error = "NoError", !.status = 200, !.raised = TRUE]
  /\ UNCHANGED <<logging, testingEnabled, haveQT, installed, csvFile, dialog,
                 now, startupTimer, recorded>>

\* logUsageEvent from the rows it read at tick t, past its two early returns;
\* the int() of the dict comprehension is inside no try block
LogUsageEventFrom(rows, component, event, t, rep) ==
  LET logged_events == MergedEvents(rows, component, event, t)
      key == <<component, event, EventDay(t)>>
  IN IF \E i \in 1..Len(rows) : IntRaises(rows[i].times)
       THEN /\ last' = [rep EXCEPT !.raised = TRUE]
            /\ UNCHANGED <<csvFile, recorded>>
       ELSE /\ \A i \in 1..Len(logged_events) :
                 logged_events[i].times.v <= MaxCount
            /\ recorded[key] < MaxCount
            /\ csvFile' = SavedCSVFile(logged_events)
            /\ recorded' = [recorded EXCEPT ![key] = @ + 1]
            /\ last' = [rep EXCEPT !.logged = TRUE]

\* logUsageEvent(component, event) past its two early returns, run without
\* interruption
LogUsageEvent(component, event, rep) ==
  LogUsageEventFrom(ReadLoggedEvents(csvFile), component, event, now, rep)

\* onUsageEventLogged(component, event), the slot of usageEventLogged, and the
\* logUsageEvent it calls
OnUsageEventLogged(component, event) ==
  /\ LET rep == [Report("logUsageEvent") EXCEPT
                   !.component = component, !.event = event,
                   !.permitted = Truthy(ShouldLogUsageEvent(component))]
     IN IF TestingEnabled
          THEN /\ last' = rep
               /\ UNCHANGED <<csvFile, recorded>>
        ELSE IF ~Truthy(ShouldLogUsageEvent(component))
          THEN /\ last' = rep
               /\ UNCHANGED <<csvFile, recorded>>
        ELSE LogUsageEvent(component, event, rep)
  /\ UNCHANGED <<logging, testingEnabled, haveQT, settings, installed, inFlight,
                 urlsByReply, dialog, now, startupTimer>>

\* the report of onUsageEventLogged(component, event)
LogReport(component, event) ==
  [Report("logUsageEvent") EXCEPT
     !.component = component, !.event = event,
     !.permitted = Truthy(ShouldLogUsageEvent(component))]

\* the open() of saveLoggedEventsToFile raised: nothing was written
OpenFails == -1

\* the file after a saveLoggedEventsToFile(logged_events) that does not
\* finish: open() raised, or the file was truncated by open() and the
\* writing stopped after `written` rows (an I/O error, a row that fails the
\* assert on its keys)
StoppedCSVFile(f, logged_events, written) ==
  IF written = OpenFails THEN f
  ELSE SavedCSVFile(SubSeq(logged_events, 1, written))

\* onUsageEventLogged(component, event) whose saveLoggedEventsToFile does not
\* finish; the exception is caught and printed
OnUsageEventLoggedSaveStops(component, event, written) ==
  LET rows == ReadLoggedEvents(csvFile)
      logged_events == MergedEvents(rows, component, event, now)
  IN /\ ~TestingEnabled
     /\ Truthy(ShouldLogUsageEvent(component))
     /\ \A i \in 1..Len(rows) : ~IntRaises(rows[i].times)
     /\ written \in {OpenFails} \cup 0..(Len(logged_events) - 1)
     /\ csvFile' = StoppedCSVFile(FileAfterRead(csvFile), logged_events, written)
     /\ last' = [LogReport(component, event) EXCEPT !.error = "SaveError"]
     /\ UNCHANGED <<logging, testingEnabled, haveQT, settings, installed,
                    inFlight, urlsByReply, dialog, now, startupTimer, recorded>>

\* one execution of logUsageEvent(component, event) gets past its two early
\* returns, takes the day and reads the store; other executions can run before
\* it saves
LogUsageEventRead(component, event) ==
  /\ ~TestingEnabled
  /\ Truthy(ShouldLogUsageEvent(component))
  /\ BagCardinality(logging) < MaxThreads
  /\ logging' = logging (+) SetToBag({[component |-> component, event |-> event,
                                       t |-> now,
                                       rows |-> ReadLoggedEvents(csvFile)]})
  /\ csvFile' = FileAfterRead(csvFile)
  /\ last' = Report("logUsageEventRead")
  /\ UNCHANGED <<testingEnabled, haveQT, settings, installed, inFlight,
                 urlsByReply, dialog, now, startupTimer, recorded>>

\* an execution that has read the store merges its occurrence into the rows
\* it read and saves them
LogUsageEventSave(execution) ==
  /\ BagIn(execution, logging)
  /\ logging' = logging (-) SetToBag({execution})
  /\ LogUsageEventFrom(execution.rows, execution.component, execution.event,
                       execution.t,
                       LogReport(execution.component, execution.event))
  /\ UNCHANGED <<testingEnabled, haveQT, settings, installed, inFlight,
                 urlsByReply, dialog, now, startupTimer>>

\* TelemetryWidget.showStatsDashboard reads the store to render it
ShowStatsDashboard ==
  /\ csvFile' = FileAfterRead(csvFile)
  /\ last' = Report("showStatsDashboard")
  /\ UNCHANGED <<logging, testingEnabled, haveQT, settings, installed, inFlight,
                 urlsByReply, dialog, now, startupTimer, recorded>>

\* ----------------------------------------------------- permission settings
\* the extensions of ExtOrder that are installed and whose combo box shows index
RECURSIVE ExtensionsAt(_, _, _)
ExtensionsAt(comboIndex, index, n) ==
  IF n = 0 THEN <<>>
  ELSE LET before == ExtensionsAt(comboIndex, index, n - 1)
       IN IF ExtOrder[n] \in DOMAIN comboIndex /\ comboIndex[ExtOrder[n]] = index
            THEN Append(before, ExtOrder[n]) ELSE before

\* the three radio buttons of the permission dialog
MainChoices == {"allowByDefault", "disableByDefault", "noDataCollection"}

\* the settings after saveSettings on the settings map s
SavedSettings(s, mainChoice, comboIndex) ==
  LET s1 == SetValue(s, "TelemetryDefaultPermission",
                     IF mainChoice = "allowByDefault" THEN PyTrue ELSE PyFalse)
      s2 == SetValue(s1, "TelemetryUserResponse",
                     IF mainChoice = "noDataCollection" THEN "no" ELSE "yes")
      s3 == SetValue(s2, "enabledExtensions",
                     ExtensionsAt(comboIndex, 1, Len(ExtOrder)))
      s4 == SetValue(s3, "disabledExtensions",
                     ExtensionsAt(comboIndex, 2, Len(ExtOrder)))
  IN SetValue(s4, "defaultExtensions", ExtensionsAt(comboIndex, 0, Len(ExtOrder)))

\* TelemetryPermissionDialog.saveSettings with the given radio button checked
\* and the given index in the combo box of every installed extension
SaveSettings(mainChoice, comboIndex) ==
  /\ ~dialog.open
  /\ settings' = SavedSettings(settings, mainChoice, comboIndex)
  /\ last' = Report("saveSettings")
  /\ UNCHANGED <<logging, testingEnabled, haveQT, installed, csvFile, inFlight,
                 urlsByReply, dialog, now, startupTimer, recorded>>

\* the extension manager installs an extension and emits extensionInstalled,
\* which runs onExtensionInstalled(extensionName)
OnExtensionInstalled(extensionName) ==
  /\ installed' = installed \cup {extensionName}
  /\ LET defaultExtensions == SettingsValue("defaultExtensions", <<>>)
     IN IF TestingEnabled \/ InList(extensionName, defaultExtensions)
          THEN UNCHANGED settings
          ELSE settings' = SetValue(settings, "defaultExtensions",
                                    Append(defaultExtensions, extensionName))
  /\ last' = [Report("onExtensionInstalled") EXCEPT !.component = extensionName]
  /\ UNCHANGED <<logging, testingEnabled, haveQT, csvFile, inFlight, urlsByReply,
                 dialog, now, startupTimer, recorded>>

\* --------------------------------------------------------------- environment
\* the store file is damaged from outside the agent: a disk fault, an editor
DamageStore(damage) ==
  /\ csvFile.exists /\ csvFile.header /\ csvFile.damage = "none"
  /\ damage = "unreadable" \/ csvFile.rows # <<>>
  /\ csvFile' = [csvFile EXCEPT !.damage = damage]
  /\ last' = Report("damage")
  /\ UNCHANGED <<logging, testingEnabled, haveQT, settings, installed, inFlight,
                 urlsByReply, dialog, now, startupTimer, recorded>>

AdvanceClock ==
  /\ \E t \in ClockValues : t > now /\ now' = t
  /\ last' = Report("clock")
  /\ UNCHANGED <<logging, testingEnabled, haveQT, settings, installed, csvFile, inFlight,
                 urlsByReply, dialog, startupTimer, recorded>>

\* a stored value as the next launch reads it back from the settings file,
\* which keeps a boolean as its text
ReadBack(value) ==
  IF value \in {PyTrue, StrTrue} THEN StrTrue
  ELSE IF value \in {PyFalse, StrFalse} THEN StrFalse
  ELSE value

Reloaded(s) ==
  [k \in DOMAIN s |-> IF k = "TelemetryDefaultPermission" THEN ReadBack(s[k])
                      ELSE s[k]]

\* the application exits and is started again, in testing mode or not: pending
\* replies and an open dialog are gone, the settings and the store are kept
Restart ==
  /\ \E t \in BOOLEAN : testingEnabled' = t /\ startupTimer' = ~t
  /\ settings' = Reloaded(settings)
  /\ inFlight' = EmptyBag
  /\ urlsByReply' = EmptyBag
  /\ dialog' = NoDialog
  /\ logging' = EmptyBag
  /\ last' = Report("restart")
  /\ UNCHANGED <<haveQT, installed, csvFile, now, recorded>>

\* ----------------------------------------------------------- specifications
NoCSVFile ==
  [exists |-> FALSE, header |-> FALSE, rows |-> <<>>, damage |-> "none"]

\* The upload policy never reads the permission settings, so the agent is
\* started with the permissions already chosen in the permission dialog of an
\* earlier launch: extension "A" always enabled, extension "B" always disabled.
ConfiguredSettings ==
  Reloaded(SavedSettings(<<>>, "disableByDefault",
                         [c \in Components |-> IF c = "A" THEN 1 ELSE 2]))

Init ==
  /\ testingEnabled \in BOOLEAN
  /\ haveQT \in BOOLEAN
  /\ settings = ConfiguredSettings
  /\ installed = Components
  /\ csvFile = NoCSVFile
  /\ inFlight = EmptyBag
  /\ urlsByReply = EmptyBag
  /\ dialog = NoDialog
  /\ now = 0
  /\ startupTimer = ~testingEnabled
  /\ recorded = NoRecorded
  /\ logging = EmptyBag
  /\ last = Report("init")

\* recording, upload checks, the send dialog, transport completions, restarts
Next ==
  \/ StartupCheck
  \/ \E force \in BOOLEAN : ~startupTimer /\ UsageUpload(force)
  \/ \E choice \in DialogChoices : DialogResolved(choice)
  \/ \E reply \in BagToSet(inFlight), result \in ReplyResults :
       HandleNetworkReply(reply, result)
  \/ \E component \in Components, event \in Events :
       ~startupTimer /\ OnUsageEventLogged(component, event)
  \/ ~startupTimer /\ ShowStatsDashboard
  \/ ~startupTimer /\ AdvanceClock
  \/ ~startupTimer /\ Restart

Spec == Init /\ [][Next]_vars

\* the state of a first launch: nothing set, nothing installed, no store
InitPermission ==
  /\ testingEnabled \in BOOLEAN
  /\ haveQT = TRUE
  /\ settings = <<>>
  /\ installed = {}
  /\ csvFile = NoCSVFile
  /\ inFlight = EmptyBag
  /\ urlsByReply = EmptyBag
  /\ dialog = NoDialog
  /\ now = 0
  /\ startupTimer = ~testingEnabled
  /\ recorded = NoRecorded
  /\ logging = EmptyBag
  /\ last = Report("init")

\* the permission dialog, extension installs, restarts, and recording under
\* the permissions they leave
NextPermission ==
  \/ \E mainChoice \in MainChoices, comboIndex \in [installed -> 0..2] :
       SaveSettings(mainChoice, comboIndex)
  \/ \E extensionName \in Components : OnExtensionInstalled(extensionName)
  \/ \E component \in Components, event \in Events :
       OnUsageEventLogged(component, event)
  \/ Restart

SpecPermission == InitPermission /\ [][NextPermission]_vars

\* the clock and lastSent of the interval check, lastSent never after now
IntervalClockValues == 0..(MaxIntervalDays * TicksPerDay)

SendPolicies == {"ask", "always", "never"}

\* the settings of a launch: the permissions of ConfiguredSettings, with the
\* send policy and lastSent earlier launches can have left
IntervalSettings(t) ==
  LET policies == {ConfiguredSettings}
        \cup {SetValue(ConfiguredSettings, "TelemetrySendPolicy", p) :
                p \in SendPolicies}
  IN policies
       \cup {SetValue(s, "lastSent", IsoFormat(l)) :
               s \in policies, l \in {x \in IntervalClockValues : x <= t}}

\* a launch at any time up to MaxIntervalDays after an earlier send
InitInterval ==
  /\ testingEnabled \in BOOLEAN
  /\ haveQT = TRUE
  /\ now \in IntervalClockValues
  /\ settings \in IntervalSettings(now)
  /\ installed = Components
  /\ csvFile = NoCSVFile
  /\ inFlight = EmptyBag
  /\ urlsByReply = EmptyBag
  /\ dialog = NoDialog
  /\ startupTimer = ~testingEnabled
  /\ recorded = NoRecorded
  /\ logging = EmptyBag
  /\ last = Report("init")

\* the upload checks of that launch and the send dialog they show
NextInterval ==
  \/ StartupCheck
  \/ \E force \in BOOLEAN : ~startupTimer /\ UsageUpload(force)
  \/ \E choice \in DialogChoices : DialogResolved(choice)

SpecInterval == InitInterval /\ [][NextInterval]_vars

\* recording and reading on a store file that can be damaged from outside
NextStore ==
  \/ \E component \in Components, event \in Events :
       OnUsageEventLogged(component, event)
  \/ ShowStatsDashboard
  \/ \E damage \in Damages : DamageStore(damage)
  \/ \E component \in Components, event \in Events,
        written \in {OpenFails} \cup 0..MaxCount :
       OnUsageEventLoggedSaveStops(component, event, written)
  \/ AdvanceClock

SpecStore == Init /\ [][NextStore]_vars

\* recording by executions of logUsageEvent that can overlap: calls from more
\* than one thread, or from two running applications that share the file
NextConcurrent ==
  \/ \E component \in Components, event \in Events :
       LogUsageEventRead(component, event)
  \/ \E execution \in BagToSet(logging) : LogUsageEventSave(execution)
  \/ AdvanceClock

SpecConcurrent == Init /\ [][NextConcurrent]_vars

\* recording and uploads while the store file can refuse to be opened for
\* writing when a delivery is confirmed
NextFaults ==
  \/ StartupCheck
  \/ \E force \in BOOLEAN : ~startupTimer /\ UsageUpload(force)
  \/ \E choice \in DialogChoices : DialogResolved(choice)
  \/ \E reply \in BagToSet(inFlight), result \in ReplyResults :
       HandleNetworkReply(reply, result)
  \/ \E reply \in BagToSet(inFlight) : HandleNetworkReplyClearFails(reply)
  \/ \E component \in Components, event \in Events :
       ~startupTimer /\ OnUsageEventLogged(component, event)

SpecFaults == Init /\ [][NextFaults]_vars

\* launches in and out of testing mode, with every handler that returns early
\* in testing mode: recording, upload checks, extension installs
NextTesting ==
  \/ StartupCheck
  \/ \E force \in BOOLEAN : ~startupTimer /\ UsageUpload(force)
  \/ \E choice \in DialogChoices : DialogResolved(choice)
  \/ \E reply \in BagToSet(inFlight), result \in ReplyResults :
       HandleNetworkReply(reply, result)
  \/ \E component \in Components, event \in Events :
       ~startupTimer /\ OnUsageEventLogged(component, event)
  \/ \E extensionName \in Components :
       ~startupTimer /\ OnExtensionInstalled(extensionName)
  \/ ~startupTimer /\ Restart

SpecTesting == Init /\ [][NextTesting]_vars

\* ------------------------------------------------------------------ claims
\* number of occurrences the store file holds under a key
StoreCount(f, key) ==
  IF \E i \in 1..Len(f.rows) : KeyOf(f.rows[i]) = key
    THEN (CHOOSE row \in {f.rows[i] : i \in 1..Len(f.rows)} : KeyOf(row) = key).times
    ELSE 0

\* number of occurrences a posted payload holds under a key
PayloadCount(data, key) ==
  IF \E i \in 1..Len(data) : KeyOf(data[i]) = key
    THEN ParseInt((CHOOSE row \in {data[i] : i \in 1..Len(data)} : KeyOf(row) = key).times)
    ELSE 0

\* the report of a step in which a delivery was confirmed: a reply that
\* finished without error, or a blocking post answered with status 200
ConfirmedSuccess(rep) ==
  \/ rep.op = "handleNetworkReply" /\ rep.error = "NoError"
  \/ rep.transport /\ rep.error = "NoError" /\ rep.status = 200

\* every record of f is still in g, with a count that is not smaller
KeepsRecords(f, g) ==
  \A i \in 1..Len(f.rows) :
    \E j \in 1..Len(g.rows) : /\ KeyOf(g.rows[j]) = KeyOf(f.rows[i])
                              /\ g.rows[j].times >= f.rows[i].times

StoredSendPolicy(s) ==
  IF "TelemetrySendPolicy" \in DOMAIN s THEN s["TelemetrySendPolicy"] ELSE "ask"

\* C1: a step that confirms a delivery (a reply without error, a blocking
\* post answered 200) leaves the store with no record, and every other step
\* keeps every record of the store, with a count that did not shrink.
C1_ClearedIffConfirmed ==
  [][IF ConfirmedSuccess(last')
       THEN csvFile'.rows = <<>>
       ELSE KeepsRecords(csvFile, csvFile')]_vars

\* a reply finished without error while the agent ran, and the store is empty
C1_Witness ==
  /\ last.op = "handleNetworkReply" /\ ConfirmedSuccess(last)
  /\ csvFile = ClearedCSVFile
  /\ "lastSent" \in DOMAIN settings

\* C2: when a reply finishes with an error, the store and lastSent are what
\* they were before, and the store still holds every record of the payload
\* that failed, so that a later check sends them again.
C2_FailureLeavesPayloadInStore ==
  [][\A r \in BagToSet(inFlight) :
       (inFlight' = WithoutReply(inFlight, r) /\ last'.op = "handleNetworkReply"
          /\ last'.error # "NoError")
       => /\ csvFile' = csvFile
          /\ settings' = settings
          /\ \A k \in Keys : StoreCount(csvFile', k) >= PayloadCount(r, k)]_vars

\* C3: when a reply finishes without error, what the clear removes under a key
\* is at most the count the delivered payload held under it: occurrences
\* recorded after the payload was read are still in the store.
C3_ClearRemovesOnlyDelivered ==
  [][\A r \in BagToSet(inFlight) :
       (inFlight' = WithoutReply(inFlight, r) /\ last'.op = "handleNetworkReply"
          /\ last'.error = "NoError")
       => \A k \in Keys :
            StoreCount(csvFile', k) >= StoreCount(csvFile, k) - PayloadCount(r, k)]_vars

\* C4: at most one posted payload is waiting for its reply.
C4_AtMostOneInFlight == BagCardinality(inFlight) <= 1

\* C5 as stated: every logUsageEvent call for a permitted component raises
\* the count stored under (component, event, today) by exactly one.
C5_EveryPermittedCallCounted ==
  [][(last'.op = "logUsageEvent" /\ last'.permitted)
       => LET key == <<last'.component, last'.event, EventDay(now)>>
          IN StoreCount(csvFile', key) = StoreCount(csvFile, key) + 1]_vars

\* C5 as amended: for every key the stored count is the number of permitted
\* logUsageEvent calls made outside testing mode since the last clear, held
\* in exactly one record when it is not zero (keys of different days are
\* different keys).
C5_CountEqualsRecorded ==
  \A k \in Keys :
    /\ StoreCount(csvFile, k) = recorded[k]
    /\ Cardinality({i \in 1..Len(csvFile.rows) : KeyOf(csvFile.rows[i]) = k})
         = IF recorded[k] > 0 THEN 1 ELSE 0

\* the same (component, event) was recorded twice on one day and once on
\* another day
C5_Witness ==
  \E i, j \in 1..Len(csvFile.rows) :
    /\ csvFile.rows[i].component = csvFile.rows[j].component
    /\ csvFile.rows[i].event = csvFile.rows[j].event
    /\ csvFile.rows[i].day # csvFile.rows[j].day
    /\ csvFile.rows[i].times = 2
    /\ csvFile.rows[j].times = 1
    /\ last.op = "logUsageEvent" /\ last.logged

\* C6: no two records of the store have the same (component, event, day).
C6_NoDuplicateKeys ==
  \A i, j \in 1..Len(csvFile.rows) :
    KeyOf(csvFile.rows[i]) = KeyOf(csvFile.rows[j]) => i = j

\* logUsageEvent has just recorded a key the store already held, next to a
\* record of another key
C6_Witness ==
  /\ last.op = "logUsageEvent" /\ last.logged
  /\ Len(csvFile.rows) = 2
  /\ StoreCount(csvFile, <<last.component, last.event, EventDay(now)>>) = 2

InEnabled(c) ==
  "enabledExtensions" \in DOMAIN settings /\ InList(c, settings["enabledExtensions"])
InDisabled(c) ==
  "disabledExtensions" \in DOMAIN settings /\ InList(c, settings["disabledExtensions"])
InDefault(c) ==
  "defaultExtensions" \in DOMAIN settings /\ InList(c, settings["defaultExtensions"])

\* TelemetryDefaultPermission holds the value "allow"
DefaultPermissionAllows ==
  /\ "TelemetryDefaultPermission" \in DOMAIN settings
  /\ settings["TelemetryDefaultPermission"] \in {PyTrue, StrTrue}

\* C7: with the three lists disjoint, a component of enabledExtensions is
\* logged, one of disabledExtensions is not, and one of defaultExtensions is
\* logged exactly when TelemetryDefaultPermission is set and allows it.
C7_ResolutionTruthTable ==
  \A c \in Components :
    (~(InEnabled(c) /\ InDisabled(c)) /\ ~(InEnabled(c) /\ InDefault(c))
       /\ ~(InDisabled(c) /\ InDefault(c)))
    => /\ InEnabled(c) => Truthy(ShouldLogUsageEvent(c))
       /\ InDisabled(c) => ~Truthy(ShouldLogUsageEvent(c))
       /\ InDefault(c) => (Truthy(ShouldLogUsageEvent(c)) <=> DefaultPermissionAllows)

\* C8: a component that is in none of the three lists is not logged, whatever
\* TelemetryDefaultPermission is.
C8_FailClosed ==
  \A c \in Components :
    (~InEnabled(c) /\ ~InDisabled(c) /\ ~InDefault(c))
    => ~Truthy(ShouldLogUsageEvent(c))

\* an occurrence of a component that is in no list arrived while the default
\* permission allowed logging, and it was not logged
C8_Witness ==
  /\ DefaultPermissionAllows
  /\ ~testingEnabled
  /\ last.op = "logUsageEvent" /\ ~last.logged
  /\ ~InEnabled(last.component) /\ ~InDisabled(last.component)
  /\ ~InDefault(last.component)

\* C9: a usageUpload(force = False), from the widget or from the startup
\* timer, made while TelemetrySendPolicy is never posts nothing and shows no
\* dialog.
C9_NeverPolicyIsSilent ==
  [][(last'.op \in {"usageUpload", "startupCheck"} /\ ~last'.force
        /\ StoredSendPolicy(settings) = "never")
       => /\ ~last'.transport /\ ~last'.prompted
          /\ inFlight' = inFlight /\ dialog' = dialog]_vars

\* usageUpload(force = False) has just returned under the never policy with
\* records in the store and lastSent unset
C9_Witness ==
  /\ last.op = "usageUpload" /\ ~last.force
  /\ StoredSendPolicy(settings) = "never"
  /\ ~testingEnabled
  /\ csvFile.rows # <<>>
  /\ "lastSent" \notin DOMAIN settings

\* what C10 asks of a step: the snapshot of the store is posted, no dialog
AlwaysSendsStep ==
  /\ last'.transport /\ ~last'.prompted /\ ~dialog'.open
  /\ haveQT => inFlight' = WithReply(inFlight, ReadLoggedEvents(csvFile))

\* C10 as stated: usageUpload(force = False) under the always policy with a
\* store that holds records posts the snapshot and shows no dialog.
C10_AlwaysPolicySends ==
  [][(last'.op = "usageUpload" /\ ~last'.force
        /\ StoredSendPolicy(settings) = "always" /\ csvFile.rows # <<>>)
       => AlwaysSendsStep]_vars

\* C10 as amended: the same, when the application is not in testing mode.
C10_AlwaysPolicySendsUnlessTesting ==
  [][(last'.op = "usageUpload" /\ ~last'.force /\ ~testingEnabled
        /\ StoredSendPolicy(settings) = "always" /\ csvFile.rows # <<>>)
       => AlwaysSendsStep]_vars

\* under the always policy usageUpload(force = False) has just posted the
\* store, on the very tick lastSent was set
C10_Witness ==
  /\ last.op = "usageUpload" /\ ~last.force /\ last.transport
  /\ StoredSendPolicy(settings) = "always"
  /\ "lastSent" \in DOMAIN settings
  /\ FromIsoFormat(settings["lastSent"]) = now

\* the stored lastSent, <<>> when it is not set
LastSentOf(s) == IF "lastSent" \in DOMAIN s THEN s["lastSent"] ELSE <<>>

\* lastSent is unset, or at least seven whole days before now
SevenDaysPassed ==
  \/ "lastSent" \notin DOMAIN settings
  \/ now - FromIsoFormat(settings["lastSent"]) >= 7 * TicksPerDay

\* C11: in ask mode shouldPromptForTelemetryUpload is true exactly when
\* lastSent is unset or at least seven whole days have passed since lastSent;
\* after zero to six whole days it is false.
C11_IntervalGating ==
  StoredSendPolicy(settings) = "ask"
    => (ShouldPromptForTelemetryUpload <=> SevenDaysPassed)

\* usageUpload(force = False) has just shown the dialog in ask mode exactly
\* seven days after lastSent
C11_Witness ==
  /\ last.op = "usageUpload" /\ ~last.force /\ last.prompted
  /\ StoredSendPolicy(settings) = "ask"
  /\ "lastSent" \in DOMAIN settings
  /\ now - FromIsoFormat(settings["lastSent"]) = 7 * TicksPerDay

\* C12: an upload check or an answer to the send dialog made while the store
\* holds no record posts nothing, registers no pending reply and leaves
\* lastSent as it is.
C12_EmptySnapshotNotSent ==
  [][(last'.op \in {"usageUpload", "startupCheck", "dialog"}
        /\ csvFile.rows = <<>>)
       => /\ ~last'.transport
          /\ inFlight' = inFlight /\ urlsByReply' = urlsByReply
          /\ LastSentOf(settings') = LastSentOf(settings)]_vars

\* under the always policy usageUpload(force = False) has just returned
\* without posting, the store emptied by an earlier delivery
C12_Witness ==
  /\ last.op = "usageUpload" /\ ~last.force /\ ~last.transport
  /\ ~testingEnabled
  /\ StoredSendPolicy(settings) = "always"
  /\ csvFile = ClearedCSVFile
  /\ "lastSent" \in DOMAIN settings

\* C13: a reply, or a blocking post, whose HTTP status is not 200 leaves the
\* records of the store and lastSent as they are.
C13_SuccessOnlyOnStatus200 ==
  [][((last'.op = "handleNetworkReply" \/ last'.transport)
        /\ last'.status # 200)
       => /\ csvFile'.rows = csvFile.rows
          /\ LastSentOf(settings') = LastSentOf(settings)]_vars

\* the store file holds the header and rows the agent wrote
WellFormed(f) == f.exists /\ f.header /\ f.damage = "none"

RecordSet(records) == {records[i] : i \in 1..Len(records)}

\* the records as (key, count) pairs, the count read as a number
CountedSet(records) ==
  {<<KeyOf(records[i]), ParseInt(records[i].times)>> : i \in 1..Len(records)}

\* the snapshots logUsageEvent can save next from a well-formed store
NextSnapshots ==
  {MergedEvents(ReadLoggedEvents(csvFile), c, e, now) :
     c \in Components, e \in Events}

C15_ReadFailsEmpty ==
  /\ ~csvFile.exists
       => /\ ReadLoggedEvents(csvFile) = <<>>
          /\ FileAfterRead(csvFile) = EmptyCSVFile
  /\ (csvFile.exists /\ csvFile.damage # "none")
       => ReadLoggedEvents(csvFile) = <<>>

\* C16: no call of onUsageEventLogged ends in an exception.
C16_LogNeverRaises ==
  [][last'.op = "logUsageEvent" => ~last'.raised]_vars

\* C17: a store file that exists begins with the header row.
C17_StoreHasHeader == csvFile.exists => csvFile.header

\* C18: no component is in two of enabledExtensions, disabledExtensions and
\* defaultExtensions.
C18_ListsDisjoint ==
  \A c \in Components :
    /\ ~(InEnabled(c) /\ InDisabled(c))
    /\ ~(InEnabled(c) /\ InDefault(c))
    /\ ~(InDisabled(c) /\ InDefault(c))

\* C19: the startup check made under the always policy with records in the
\* store posts them without showing the dialog.
C19_StartupCheckSendsInAlwaysMode ==
  [][(last'.op = "startupCheck" /\ StoredSendPolicy(settings) = "always"
        /\ csvFile.rows # <<>>)
       => (last'.transport /\ ~last'.prompted)]_vars

\* C20 as stated: under the always policy no upload check, forced or not,
\* shows the send dialog.
C20_NoPromptInAlwaysMode ==
  [][(last'.op \in {"usageUpload", "startupCheck"}
        /\ StoredSendPolicy(settings) = "always")
       => (~last'.prompted /\ ~dialog'.open)]_vars

\* C20 as amended: the send dialog is shown only outside testing mode, and
\* only by a forced check or by one made in ask mode with lastSent unset or at
\* least seven days old.
C20_PromptOnlyForcedOrEligible ==
  [][((dialog'.open /\ ~dialog.open) \/ last'.prompted)
       => /\ ~testingEnabled
          /\ last'.prompted /\ dialog'.open
          /\ \/ last'.force
             \/ StoredSendPolicy(settings) = "ask" /\ SevenDaysPassed]_vars

\* usageUpload(force = True) has just shown the send dialog under the always
\* policy, less than seven days after lastSent
C20_Witness ==
  /\ last.op = "usageUpload" /\ last.force /\ last.prompted
  /\ dialog.open
  /\ StoredSendPolicy(settings) = "always"
  /\ ~SevenDaysPassed

\* C21: every resolution of the send dialog closes it; send-once and always
\* call the transport exactly when the store holds a record, and
\* dont-send-once, never, no selection and cancelling call no transport and
\* leave the store, lastSent and the pending replies as they were.
C21_DialogResolutions ==
  [][\A choice \in DialogChoices :
       DialogResolved(choice)
         => /\ ~dialog'.open
            /\ IF choice \in {"send-once", "always"}
                 THEN last'.transport <=> (csvFile.rows # <<>>)
                 ELSE /\ ~last'.transport
                      /\ csvFile' = csvFile
                      /\ LastSentOf(settings') = LastSentOf(settings)
                      /\ inFlight' = inFlight]_vars

\* a choice made in the send dialog under the ask policy has just posted the
\* records to the server, and the policy is still ask (send-once)
C21_Witness ==
  /\ last.op = "dialog" /\ last.transport
  /\ ~dialog.open
  /\ StoredSendPolicy(settings) = "ask"
  /\ inFlight # EmptyBag

\* C22: TelemetrySendPolicy changes only in a step that resolves the send
\* dialog with always or never, which stores that value; every other step
\* leaves it as it was.
C22_PolicySticky ==
  [][/\ \A choice \in {"always", "never"} :
          DialogResolved(choice) => StoredSendPolicy(settings') = choice
     /\ StoredSendPolicy(settings') # StoredSendPolicy(settings)
          => \E choice \in {"always", "never"} : DialogResolved(choice)
     /\ \A choice \in DialogChoices \ {"always", "never"} :
          DialogResolved(choice)
            => StoredSendPolicy(settings') = StoredSendPolicy(settings)]_vars

\* the policy is never and a check that was not forced has just returned
\* without a prompt or a transport call, with records in the store
C22_Witness ==
  /\ last.op \in {"usageUpload", "startupCheck"} /\ ~last.force
  /\ ~last.prompted /\ ~last.transport
  /\ ~testingEnabled
  /\ StoredSendPolicy(settings) = "never"
  /\ csvFile.rows # <<>>

C24_NotPermittedLeavesStore ==
  [][(last'.op = "logUsageEvent"
        /\ ShouldLogUsageEvent(last'.component) \in {PyFalse, PyNone})
       => (csvFile' = csvFile /\ ~last'.logged)]_vars

\* outside testing mode an occurrence of a component that is not permitted
\* has just been dropped while the store held records
C24_Witness ==
  /\ last.op = "logUsageEvent" /\ ~last.permitted /\ ~last.logged
  /\ ~testingEnabled
  /\ csvFile.rows # <<>>

\* C25: onUsageEventLogged, permitted or not, leaves every setting as it was
\* (the three extension lists, TelemetryDefaultPermission, TelemetrySendPolicy,
\* TelemetryUserResponse, lastSent); with no setting stored no component is
\* permitted and the send policy reads as ask.
C25_AggregationKeepsPolicy ==
  [][/\ last'.op = "logUsageEvent" => settings' = settings
     /\ settings = <<>>
          => /\ \A c \in Components : ~Truthy(ShouldLogUsageEvent(c))
             /\ SettingsValue("TelemetrySendPolicy", "ask") = "ask"]_vars

\* an occurrence has just been recorded after the permission dialog stored
\* its settings
C25_Witness ==
  /\ last.op = "logUsageEvent" /\ last.logged
  /\ "TelemetryDefaultPermission" \in DOMAIN settings
  /\ "enabledExtensions" \in DOMAIN settings

\* C26: urlsByReply holds exactly the replies that are in flight: an entry
\* is added with the post and removed by handleNetworkReply on success and
\* on failure alike, so it is empty when nothing is in flight and never
\* larger than the number of pending replies.
C26_UrlsExactlyInFlight ==
  /\ urlsByReply = inFlight
  /\ inFlight = EmptyBag => urlsByReply = EmptyBag
  /\ BagCardinality(urlsByReply) <= MaxInFlight

\* a reply has just finished with an error, nothing is in flight any more
\* and the records it carried are still in the store
C26_Witness ==
  /\ last.op = "handleNetworkReply" /\ last.error # "NoError"
  /\ inFlight = EmptyBag /\ urlsByReply = EmptyBag
  /\ csvFile.rows # <<>>

\* C27: a save that does not finish leaves the records persisted before the
\* call as the next load returns them.
C27_FailedSaveKeepsRecords ==
  [][(last'.op = "logUsageEvent" /\ last'.error = "SaveError")
       => ReadLoggedEvents(csvFile') = ReadLoggedEvents(csvFile)]_vars

\* C28: once every logUsageEvent execution that started has saved, each key
\* of the store holds the number of occurrences recorded for it.
C28_NoLostUpdate ==
  logging = EmptyBag => \A k \in Keys : StoreCount(csvFile, k) = recorded[k]

\* C29: lastSent changes in a step exactly when that step clears the store
\* for a confirmed delivery, and it then holds the time of that step.
C29_SuccessEffectsAtomic ==
  [][/\ LastSentOf(settings') # LastSentOf(settings) => csvFile' = ClearedCSVFile
     /\ (csvFile' = ClearedCSVFile /\ csvFile.rows # <<>>)
          => LastSentOf(settings') = IsoFormat(now)
     /\ (last'.op = "handleNetworkReply" /\ last'.error = "NoError"
           /\ last'.status = 200)
          => (csvFile'.rows = <<>> /\ LastSentOf(settings') = IsoFormat(now))]_vars

\* C30: while TelemetryUserResponse is no, shouldLogUsageEvent is false for
\* every component.
C30_NoDataCollectionRecordsNothing ==
  ("TelemetryUserResponse" \in DOMAIN settings
     /\ settings["TelemetryUserResponse"] = "no")
    => \A c \in Components : ~Truthy(ShouldLogUsageEvent(c))

\* C31: in testing mode onUsageEventLogged, usageUpload (the startup check
\* included) and onExtensionInstalled change neither the store nor any
\* setting, show no dialog and call no transport.
C31_TestingModeHasNoEffect ==
  [][(testingEnabled
        /\ last'.op \in {"logUsageEvent", "usageUpload", "startupCheck",
                         "onExtensionInstalled"})
       => /\ csvFile' = csvFile
          /\ settings' = settings
          /\ dialog' = dialog /\ ~dialog'.open
          /\ inFlight' = inFlight /\ urlsByReply' = urlsByReply
          /\ recorded' = recorded
          /\ ~last'.prompted /\ ~last'.transport /\ ~last'.logged]_vars

\* in testing mode an extension that is not in defaultExtensions has just
\* been installed while the store held records of an earlier launch
C31_Witness ==
  /\ testingEnabled
  /\ last.op = "onExtensionInstalled"
  /\ ~InList(last.component, SettingsValue("defaultExtensions", <<>>))
  /\ csvFile.rows # <<>>

\* C32: the payload posted after send-once or always is the snapshot the send
\* dialog showed.
C32_PayloadIsPresentedSnapshot ==
  [][\A choice \in {"send-once", "always"} :
       (DialogResolved(choice) /\ last'.transport)
         => /\ ReadLoggedEvents(csvFile) = dialog.details
            /\ haveQT => inFlight' = WithReply(inFlight, dialog.details)]_vars

====
